---------------------------- MODULE Spec2Model ----------------------------
(***************************************************************************)
(* A model of the embedded data-structure library: the byte ring queue     *)
(* (circular_buffer.h), the fixed hash table (fixed_hash_table.h), the     *)
(* fixed-block memory pool (memory_pool.h) and the stack allocator         *)
(* (stack_allocator.h).  The four structures share no state; each has its  *)
(* own variables, its own actions and its own specification.               *)
(***************************************************************************)
EXTENDS Integers, Sequences, FiniteSets, TLC

(***************************************************************************)
(* Bounds of the model.                                                    *)
(***************************************************************************)
\* largest ring-queue capacity handed to cb_init
MaxCap == 3
\* number of successful cb_write calls that are followed
MaxWrites == 5
\* data bytes are drawn from 0..MaxByte
MaxByte == 1

Bytes == 0..MaxByte

\* the value of a caller's variable that was never assigned
Unset == -1

(***************************************************************************)
(* Ring queue: circular_buffer_t and its operations.                       *)
(***************************************************************************)
VARIABLES
    cb_buffer,    \* cb->buffer: the caller's storage, index -> byte
    cb_size,      \* cb->size
    cb_head,      \* cb->head, the write index
    cb_tail,      \* cb->tail, the read index
    cb_count,     \* cb->count
    cb_data,      \* the caller's output byte (*data of cb_read)
    cb_last,      \* the last call and what it returned
    cb_written,   \* history: the bytes stored by successful cb_write calls
    cb_readlog,   \* history: the bytes returned by successful cb_read calls
    cb_writer,    \* a process inside cb_write: where it is (pc), its
                  \* argument (data) and the count it has loaded (count)
    cb_reader     \* a process inside cb_read: where it is (pc) and the
                  \* count it has loaded (count)

cb_vars == <<cb_buffer, cb_size, cb_head, cb_tail, cb_count, cb_data,
             cb_last, cb_written, cb_readlog, cb_writer, cb_reader>>

\* a process that is not inside a call
WriterIdle == [pc |-> "idle", data |-> 0, count |-> 0]

ReaderIdle == [pc |-> "idle", count |-> 0]

\* cb_init binds the caller's storage (whose bytes it does not touch) and
\* zeroes the indices and the count.
CbInit(size) ==
    /\ cb_size = size
    /\ cb_buffer \in [0..(size - 1) -> Bytes]
    /\ cb_head = 0
    /\ cb_tail = 0
    /\ cb_count = 0
    /\ cb_data = Unset
    /\ cb_last = [op |-> "init", ret |-> TRUE]
    /\ cb_written = <<>>
    /\ cb_readlog = <<>>
    /\ cb_writer = WriterIdle
    /\ cb_reader = ReaderIdle

cb_is_empty == cb_count = 0

\* fullness told from the indices alone: head has caught up with tail
cb_is_full_by_index == cb_head = cb_tail

cb_is_full == cb_count = cb_size

\* a mutation of Advance: the index is not moved
AdvanceStuck(i, size) == i

\* the index moved without the reduction modulo size
AdvanceNoWrap(i, size) == i + 1

\* (i + 1) % size, the step of head and of tail
Advance(i, size) == (i + 1) % size

cb_write(data) ==
    IF cb_is_full
    THEN /\ cb_last' = [op |-> "write", ret |-> FALSE]
         /\ UNCHANGED <<cb_buffer, cb_size, cb_head, cb_tail, cb_count,
                        cb_data, cb_written, cb_readlog>>
    ELSE /\ Len(cb_written) < MaxWrites
         /\ cb_buffer' = [cb_buffer EXCEPT ![cb_head] = data]
         /\ cb_head' = Advance(cb_head, cb_size)
         /\ cb_count' = cb_count + 1
         /\ cb_last' = [op |-> "write", ret |-> TRUE]
         /\ cb_written' = Append(cb_written, data)
         /\ UNCHANGED <<cb_size, cb_tail, cb_data, cb_readlog>>

\* cb_read that clears the caller's byte before it looks at the queue
cb_read_clear_first ==
    IF cb_is_empty
    THEN /\ cb_data' = 0
         /\ cb_last' = [op |-> "read", ret |-> FALSE]
         /\ UNCHANGED <<cb_buffer, cb_size, cb_head, cb_tail, cb_count,
                        cb_written, cb_readlog>>
    ELSE /\ cb_data' = cb_buffer[cb_tail]
         /\ cb_tail' = Advance(cb_tail, cb_size)
         /\ cb_count' = cb_count - 1
         /\ cb_last' = [op |-> "read", ret |-> TRUE]
         /\ cb_readlog' = Append(cb_readlog, cb_buffer[cb_tail])
         /\ UNCHANGED <<cb_buffer, cb_size, cb_head, cb_written>>

cb_read ==
    IF cb_is_empty
    THEN /\ cb_last' = [op |-> "read", ret |-> FALSE]
         /\ UNCHANGED <<cb_buffer, cb_size, cb_head, cb_tail, cb_count,
                        cb_data, cb_written, cb_readlog>>
    ELSE /\ cb_data' = cb_buffer[cb_tail]
         /\ cb_tail' = Advance(cb_tail, cb_size)
         /\ cb_count' = cb_count - 1
         /\ cb_last' = [op |-> "read", ret |-> TRUE]
         /\ cb_readlog' = Append(cb_readlog, cb_buffer[cb_tail])
         /\ UNCHANGED <<cb_buffer, cb_size, cb_head, cb_written>>

(***************************************************************************)
(* cb_write and cb_read run by two processes without a lock, one load or   *)
(* store of buffer, head, tail or count at a time.  head is stored by the  *)
(* writer only and tail by the reader only, so the load and the store of   *)
(* an index are one step; count is stored by both, and cb->count += 1 and  *)
(* cb->count-- are a load followed by a store.  The steps are interleaved  *)
(* in program order, which is one of the outcomes of the unsynchronised    *)
(* accesses.                                                               *)
(***************************************************************************)
\* if (cb_is_full(cb)) return false;
cb_write_check(data) ==
    /\ cb_writer.pc = "idle"
    /\ IF cb_is_full
       THEN /\ cb_last' = [op |-> "write", ret |-> FALSE]
            /\ UNCHANGED cb_writer
       ELSE /\ Len(cb_written) < MaxWrites
            /\ cb_writer' = [pc |-> "store", data |-> data, count |-> 0]
            /\ UNCHANGED cb_last
    /\ UNCHANGED <<cb_buffer, cb_size, cb_head, cb_tail, cb_count, cb_data,
                   cb_written, cb_readlog, cb_reader>>

\* cb->buffer[cb->head] = data;
cb_write_store ==
    /\ cb_writer.pc = "store"
    /\ cb_buffer' = [cb_buffer EXCEPT ![cb_head] = cb_writer.data]
    /\ cb_written' = Append(cb_written, cb_writer.data)
    /\ cb_writer' = [cb_writer EXCEPT !.pc = "head"]
    /\ UNCHANGED <<cb_size, cb_head, cb_tail, cb_count, cb_data, cb_last,
                   cb_readlog, cb_reader>>

\* cb->head = (cb->head + 1) % cb->size;
cb_write_head ==
    /\ cb_writer.pc = "head"
    /\ cb_head' = Advance(cb_head, cb_size)
    /\ cb_writer' = [cb_writer EXCEPT !.pc = "load"]
    /\ UNCHANGED <<cb_buffer, cb_size, cb_tail, cb_count, cb_data, cb_last,
                   cb_written, cb_readlog, cb_reader>>

\* cb->count += 1: the load
cb_write_load ==
    /\ cb_writer.pc = "load"
    /\ cb_writer' = [cb_writer EXCEPT !.pc = "inc", !.count = cb_count]
    /\ UNCHANGED <<cb_buffer, cb_size, cb_head, cb_tail, cb_count, cb_data,
                   cb_last, cb_written, cb_readlog, cb_reader>>

\* cb->count += 1: the store; return true;
cb_write_inc ==
    /\ cb_writer.pc = "inc"
    /\ cb_count' = cb_writer.count + 1
    /\ cb_last' = [op |-> "write", ret |-> TRUE]
    /\ cb_writer' = WriterIdle
    /\ UNCHANGED <<cb_buffer, cb_size, cb_head, cb_tail, cb_data,
                   cb_written, cb_readlog, cb_reader>>

\* if (cb_is_empty(cb)) return false;
cb_read_check ==
    /\ cb_reader.pc = "idle"
    /\ IF cb_is_empty
       THEN /\ cb_last' = [op |-> "read", ret |-> FALSE]
            /\ UNCHANGED cb_reader
       ELSE /\ cb_reader' = [pc |-> "copy", count |-> 0]
            /\ UNCHANGED cb_last
    /\ UNCHANGED <<cb_buffer, cb_size, cb_head, cb_tail, cb_count, cb_data,
                   cb_written, cb_readlog, cb_writer>>

\* *data = cb->buffer[cb->tail];
cb_read_copy ==
    /\ cb_reader.pc = "copy"
    /\ cb_data' = cb_buffer[cb_tail]
    /\ cb_readlog' = Append(cb_readlog, cb_buffer[cb_tail])
    /\ cb_reader' = [cb_reader EXCEPT !.pc = "tail"]
    /\ UNCHANGED <<cb_buffer, cb_size, cb_head, cb_tail, cb_count, cb_last,
                   cb_written, cb_writer>>

\* cb->tail = (cb->tail + 1) % cb->size;
cb_read_tail ==
    /\ cb_reader.pc = "tail"
    /\ cb_tail' = Advance(cb_tail, cb_size)
    /\ cb_reader' = [cb_reader EXCEPT !.pc = "load"]
    /\ UNCHANGED <<cb_buffer, cb_size, cb_head, cb_count, cb_data, cb_last,
                   cb_written, cb_readlog, cb_writer>>

\* cb->count--: the load
cb_read_load ==
    /\ cb_reader.pc = "load"
    /\ cb_reader' = [cb_reader EXCEPT !.pc = "dec", !.count = cb_count]
    /\ UNCHANGED <<cb_buffer, cb_size, cb_head, cb_tail, cb_count, cb_data,
                   cb_last, cb_written, cb_readlog, cb_writer>>

\* cb->count--: the store; return true;
cb_read_dec ==
    /\ cb_reader.pc = "dec"
    /\ cb_count' = cb_reader.count - 1
    /\ cb_last' = [op |-> "read", ret |-> TRUE]
    /\ cb_reader' = ReaderIdle
    /\ UNCHANGED <<cb_buffer, cb_size, cb_head, cb_tail, cb_data,
                   cb_written, cb_readlog, cb_writer>>

(***************************************************************************)
(* Fixed hash table: fixed_hash_table_t and its operations.                *)
(*                                                                         *)
(* A key is a C string, modelled as the sequence of its character codes.   *)
(* A bucket is max_key_length key bytes, value_size value bytes and the    *)
(* occupancy flag.  The key field always holds a string followed by NUL    *)
(* bytes only (memset in ht_init, strncpy's padding and the terminator     *)
(* written by ht_put), so it is modelled by that string.  The value field  *)
(* is modelled by one word standing for its value_size bytes; 0 is the     *)
(* all-zero field ht_init leaves.                                          *)
(***************************************************************************)
\* largest table_size handed to ht_init
MaxTable == 3
\* calls since ht_init that ht_hist records before it gives up
HistLen == 3

TableSizes == 1..MaxTable

\* "a", "bb", "ab"
Keys == {<<97>>, <<98, 98>>, <<97, 98>>}

\* max_key_length handed to ht_init: 2 (a two-character key fills the
\* field) and 3 (every key of Keys is shorter than the field)
KeyLengths == {2, 3}

ValueSizes == {4}

\* two contents of a value field, both different from the zeroed field
Values == {1, 2}

VARIABLES
    ht_memory,          \* ht->memory: bucket index -> [key, value, occupied]
    ht_table_size,      \* ht->table_size
    ht_max_key_length,  \* ht->max_key_length
    ht_value_size,      \* ht->value_size
    ht_last,            \* the last call, its arguments and what it returned
    ht_hist,            \* the put and remove calls since ht_init, while
                        \* there are at most HistLen of them
    ht_removed,         \* the keys ht_remove returned true for, with no
                        \* successful ht_put of the key since
    ht_scratch          \* the bytes the last call stored into the dummy
                        \* array of ht_contains

ht_vars == <<ht_memory, ht_table_size, ht_max_key_length, ht_value_size,
             ht_last, ht_hist, ht_removed, ht_scratch>>

HtCall(op, key, value, ret) ==
    [op |-> op, key |-> key, value |-> value, ret |-> ret]

\* ht_hist once more than HistLen calls were made
HistMore == <<HtCall("more", <<>>, 0, FALSE)>>

HistAdd(hist, call) ==
    IF hist = HistMore \/ Len(hist) >= HistLen
    THEN HistMore
    ELSE Append(hist, call)

\* ht_init: the fields, and memset(memory, 0, ...)
HtInit(table_size, max_key_length, value_size) ==
    /\ ht_table_size = table_size
    /\ ht_max_key_length = max_key_length
    /\ ht_value_size = value_size
    /\ ht_memory = [b \in 0..(table_size - 1) |->
                        [key |-> <<>>, value |-> 0, occupied |-> 0]]
    /\ ht_last = HtCall("init", <<>>, 0, TRUE)
    /\ ht_hist = <<>>
    /\ ht_removed = {}
    /\ ht_scratch = 0

\* hash = hash * 31 + *key over the characters of key.  For the keys of the
\* model the value stays far below 2^32, so size_t never wraps.
RECURSIVE hash_from(_, _, _)
hash_from(key, pos, hash) ==
    IF pos > Len(key)
    THEN hash
    ELSE hash_from(key, pos + 1, hash * 31 + key[pos])

hash_function(key) == hash_from(key, 1, 0)

\* hash_function(key) % ht->table_size
StartIndex(key) == hash_function(key) % ht_table_size

\* strncpy(bucket, key, max_key_length - 1); bucket[max_key_length - 1] = 0:
\* the string the key field holds afterwards
StoredKey(key) ==
    IF Len(key) <= ht_max_key_length - 1
    THEN key
    ELSE SubSeq(key, 1, ht_max_key_length - 1)

\* strcmp((char*)bucket, key) == 0
KeyMatches(bucket, key) == bucket.key = key

NoSlot == -1

\* the probe loop of ht_put stopping one bucket short of table_size
RECURSIVE PutSlotShort(_, _, _)
PutSlotShort(mem, key, i) ==
    IF i >= ht_table_size - 1
    THEN NoSlot
    ELSE LET current_index == (StartIndex(key) + i) % ht_table_size
         IN  IF mem[current_index].occupied = 0
                    \/ KeyMatches(mem[current_index], key)
             THEN current_index
             ELSE PutSlotShort(mem, key, i + 1)

\* the probe loop of ht_put from iteration i on: the first bucket that is
\* unoccupied or holds the key, NoSlot when the loop runs out
RECURSIVE PutSlot(_, _, _)
PutSlot(mem, key, i) ==
    IF i >= ht_table_size
    THEN NoSlot
    ELSE LET current_index == (StartIndex(key) + i) % ht_table_size
         IN  IF mem[current_index].occupied = 0
                    \/ KeyMatches(mem[current_index], key)
             THEN current_index
             ELSE PutSlot(mem, key, i + 1)

\* the number of buckets the probe loop of ht_put examines from iteration
\* i on
RECURSIVE PutProbes(_, _, _)
PutProbes(mem, key, i) ==
    IF i >= ht_table_size
    THEN 0
    ELSE LET current_index == (StartIndex(key) + i) % ht_table_size
         IN  IF mem[current_index].occupied = 0
                    \/ KeyMatches(mem[current_index], key)
             THEN 1
             ELSE 1 + PutProbes(mem, key, i + 1)

\* ht_put: what it returns and the memory it leaves
ht_put(mem, key, value) ==
    LET slot == PutSlot(mem, key, 0)
    IN  IF slot = NoSlot
        THEN [ret |-> FALSE, mem |-> mem]
        ELSE [ret |-> TRUE,
              mem |-> [mem EXCEPT ![slot] = [key |-> StoredKey(key),
                                             value |-> value,
                                             occupied |-> 1]]]

\* the probe loop of ht_get and ht_remove from iteration i on: NoSlot at the
\* first unoccupied bucket or when the loop runs out, else the first bucket
\* that holds the key
RECURSIVE FindSlot(_, _, _)
FindSlot(mem, key, i) ==
    IF i >= ht_table_size
    THEN NoSlot
    ELSE LET current_index == (StartIndex(key) + i) % ht_table_size
         IN  IF mem[current_index].occupied = 0
             THEN NoSlot
             ELSE IF KeyMatches(mem[current_index], key)
                  THEN current_index
                  ELSE FindSlot(mem, key, i + 1)

\* ht_get: what it returns, the value copied out (Unset: nothing copied)
\* and the number of bytes memcpy stored through the value pointer
ht_get(mem, key) ==
    LET slot == FindSlot(mem, key, 0)
    IN  IF slot = NoSlot
        THEN [ret |-> FALSE, value |-> Unset, copied |-> 0]
        ELSE [ret |-> TRUE, value |-> mem[slot].value,
              copied |-> ht_value_size]

\* ht_remove: what it returns and the memory it leaves
ht_remove(mem, key) ==
    LET slot == FindSlot(mem, key, 0)
    IN  IF slot = NoSlot
        THEN [ret |-> FALSE, mem |-> mem]
        ELSE [ret |-> TRUE, mem |-> [mem EXCEPT ![slot].occupied = 0]]

ht_put_call(key, value) ==
    LET r == ht_put(ht_memory, key, value)
        call == HtCall("put", key, value, r.ret)
    IN  /\ ht_memory' = r.mem
        /\ ht_last' = call
        /\ ht_hist' = HistAdd(ht_hist, call)
        /\ ht_removed' = IF r.ret THEN ht_removed \ {key} ELSE ht_removed
        /\ ht_scratch' = 0
        /\ UNCHANGED <<ht_table_size, ht_max_key_length, ht_value_size>>

ht_get_call(key) ==
    LET r == ht_get(ht_memory, key)
    IN  /\ ht_last' = HtCall("get", key, r.value, r.ret)
        /\ ht_scratch' = 0
        /\ UNCHANGED <<ht_memory, ht_table_size, ht_max_key_length,
                       ht_value_size, ht_hist, ht_removed>>

ht_remove_call(key) ==
    LET r == ht_remove(ht_memory, key)
        call == HtCall("remove", key, 0, r.ret)
    IN  /\ ht_memory' = r.mem
        /\ ht_last' = call
        /\ ht_hist' = HistAdd(ht_hist, call)
        /\ ht_removed' = IF r.ret THEN ht_removed \cup {key} ELSE ht_removed
        /\ ht_scratch' = 0
        /\ UNCHANGED <<ht_table_size, ht_max_key_length, ht_value_size>>

\* uint8_t dummy[16], the array ht_contains hands to ht_get
DummySize == 16

\* ht_contains: ht_get with dummy as the value pointer; what it returns and
\* the number of bytes stored into dummy
ht_contains(mem, key) ==
    LET r == ht_get(mem, key)
    IN  [ret |-> r.ret, stored |-> r.copied]

\* A copy longer than dummy runs over the frame of ht_contains: what the
\* call then returns is not determined.
ht_contains_call(key) ==
    LET r == ht_contains(ht_memory, key)
    IN  /\ ht_scratch' = r.stored
        /\ \E ret \in IF r.stored > DummySize THEN BOOLEAN ELSE {r.ret} :
               ht_last' = HtCall("contains", key, 0, ret)
        /\ UNCHANGED <<ht_memory, ht_table_size, ht_max_key_length,
                       ht_value_size, ht_hist, ht_removed>>

\* the number of buckets whose occupancy flag is 1
Occupancy(mem) == Cardinality({b \in DOMAIN mem : mem[b].occupied = 1})

(***************************************************************************)
(* Machine arithmetic.  size_t is an unsigned integer of SizeBits bits;    *)
(* the model uses a narrow one so that every size_t value can be an input. *)
(***************************************************************************)
SizeBits == 5

SizeModulus == 2 ^ SizeBits

SizeMax == SizeModulus - 1

\* the result of a size_t addition or subtraction
Wrap(n) == n % SizeModulus

(***************************************************************************)
(* Memory pool: memory_pool_t and its operations.                          *)
(*                                                                         *)
(* A pointer into the backing region is modelled by its offset from        *)
(* mp->memory.  mp_link holds, for every block, the pointer stored in its  *)
(* first PtrSize bytes: the link field while the block is free, caller     *)
(* data while it is handed out.                                            *)
(***************************************************************************)
\* largest number of blocks of a pool
MaxBlocks == 3

\* sizeof(void *)
PtrSize == 8

\* largest number of mp_alloc / mp_free calls of a run whose calls are
\* recorded one by one
MaxTrace == 6

NULL == -1

\* block_size handed to mp_init: at least one link field (the precondition
\* of the pool), a multiple of the pointer alignment
BlockSizes == {PtrSize, 2 * PtrSize}

VARIABLES
    mp_total_size,  \* mp->total_size
    mp_block_size,  \* mp->block_size
    mp_free_list,   \* mp->free_list
    mp_link,        \* block offset -> the pointer held in its first bytes
    mp_fault,       \* mp_init wrote outside the backing region
    mp_live,        \* the blocks handed out by mp_alloc and not freed since
    mp_last,        \* the last call, what it returned, the chain before it
    mp_allocs,      \* fresh: every call since mp_init was an mp_alloc;
                    \* rets: what the first MaxBlocks + 2 of them returned
    mp_trace        \* the calls since mp_init, one by one, of a caller
                    \* that is not held to the trust contract:
                    \* [op, block] with block the block mp_alloc returned
                    \* or the block handed to mp_free

mp_vars == <<mp_total_size, mp_block_size, mp_free_list, mp_link, mp_fault,
             mp_live, mp_last, mp_allocs, mp_trace>>

\* size_t num_blocks = total_size / block_size
NumBlocks(total_size, block_size) == total_size \div block_size

\* the bound of the linking loop and the index of last_block:
\* num_blocks - 1 in size_t
LastIndex(total_size, block_size) ==
    Wrap(NumBlocks(total_size, block_size) - 1)

\* the offsets at which mp_init stores a pointer: i * block_size for every
\* i of the loop, and last_block
InitWrites(total_size, block_size) ==
    {i * block_size : i \in 0..LastIndex(total_size, block_size)}

\* a store of one pointer at offset off stays inside the backing region
InRegion(off, total_size) == off >= 0 /\ off + PtrSize <= total_size

\* the link fields mp_init leaves in a pool of at least one block
InitLink(total_size, block_size) ==
    [off \in {i * block_size :
                 i \in 0..(NumBlocks(total_size, block_size) - 1)} |->
        IF off = LastIndex(total_size, block_size) * block_size
        THEN NULL
        ELSE off + block_size]

\* a call on the pool: its argument, what it returned, the free chain
\* before it and the call made before it
MpCall(op, block, ret, before, prev) ==
    [op |-> op, block |-> block, ret |-> ret, before |-> before,
     prev |-> prev]

\* mp_init.  With num_blocks = 0 the loop bound num_blocks - 1 wraps to
\* SIZE_MAX: the loop strides through the whole address space, storing
\* outside the backing region, and no build returns from the call.  The
\* model records the fault and makes no further call on such a pool.
MpInit(total_size, block_size) ==
    /\ mp_total_size = total_size
    /\ mp_block_size = block_size
    /\ mp_free_list = 0
    /\ mp_fault = (\E off \in InitWrites(total_size, block_size) :
                       ~InRegion(off, total_size))
    /\ mp_link = IF mp_fault
                 THEN <<>>
                 ELSE InitLink(total_size, block_size)
    /\ mp_live = {}
    /\ mp_last = MpCall("init", NULL, NULL, <<>>, "none")
    /\ mp_allocs = [fresh |-> TRUE, rets |-> <<>>]
    /\ mp_trace = <<>>

\* the offsets of the blocks of the pool
Blocks ==
    {i * mp_block_size :
        i \in 0..(NumBlocks(mp_total_size, mp_block_size) - 1)}

\* the blocks met from pointer p on by following the link fields, at most
\* n of them
RECURSIVE ChainFrom(_, _, _)
ChainFrom(link, p, n) ==
    IF p = NULL \/ n = 0 \/ p \notin DOMAIN link
    THEN <<>>
    ELSE <<p>> \o ChainFrom(link, link[p], n - 1)

\* the pointer reached from p after n links, or earlier when the walk
\* leaves the blocks
RECURSIVE ChainEnd(_, _, _)
ChainEnd(link, p, n) ==
    IF p = NULL \/ n = 0 \/ p \notin DOMAIN link
    THEN p
    ELSE ChainEnd(link, link[p], n - 1)

\* the free chain: what is reachable from free_list
FreeChain(free_list, link) ==
    ChainFrom(link, free_list, Cardinality(DOMAIN link) + 1)

AllocsAdd(allocs, ret) ==
    IF allocs.fresh /\ Len(allocs.rets) < MaxBlocks + 2
    THEN [allocs EXCEPT !.rets = Append(allocs.rets, ret)]
    ELSE allocs

\* a mutation of mp_alloc_next: the head is left on the chain
mp_alloc_keep_head(free_list, link) == free_list

\* mp->free_list = *(void **)mp->free_list
mp_alloc_next(free_list, link) == link[free_list]

mp_alloc ==
    /\ ~mp_fault
    /\ IF mp_free_list = NULL
       THEN /\ mp_last' = MpCall("alloc", NULL, NULL,
                                 FreeChain(mp_free_list, mp_link),
                                 mp_last.op)
            /\ mp_allocs' = AllocsAdd(mp_allocs, NULL)
            /\ UNCHANGED <<mp_total_size, mp_block_size, mp_free_list,
                           mp_link, mp_fault, mp_live>>
       ELSE /\ mp_free_list' = mp_alloc_next(mp_free_list, mp_link)
            /\ mp_live' = mp_live \cup {mp_free_list}
            /\ mp_last' = MpCall("alloc", NULL, mp_free_list,
                                 FreeChain(mp_free_list, mp_link),
                                 mp_last.op)
            /\ mp_allocs' = AllocsAdd(mp_allocs, mp_free_list)
            /\ UNCHANGED <<mp_total_size, mp_block_size, mp_link, mp_fault>>

\* a mutation of mp_free_link: the freed block's link field is cleared
mp_free_link_null(link, block, free_list) == [link EXCEPT ![block] = NULL]

\* *(void **)block = mp->free_list
mp_free_link(link, block, free_list) == [link EXCEPT ![block] = free_list]

\* mp_free under the trust contract: block was returned by mp_alloc and
\* not freed since
mp_free(block) ==
    /\ ~mp_fault
    /\ block \in mp_live
    /\ mp_link' = mp_free_link(mp_link, block, mp_free_list)
    /\ mp_free_list' = block
    /\ mp_live' = mp_live \ {block}
    /\ mp_last' = MpCall("free", block, NULL,
                         FreeChain(mp_free_list, mp_link), mp_last.op)
    /\ mp_allocs' = [fresh |-> FALSE, rets |-> <<>>]
    /\ UNCHANGED <<mp_total_size, mp_block_size, mp_fault>>

\* the blocks mp_alloc has returned at some time
Handed ==
    {mp_trace[i].block :
        i \in {n \in 1..Len(mp_trace) :
                  mp_trace[n].op = "alloc" /\ mp_trace[n].block # NULL}}

\* mp_alloc by a caller whose calls are recorded
mp_alloc_traced ==
    /\ Len(mp_trace) < MaxTrace
    /\ mp_alloc
    /\ mp_trace' = Append(mp_trace, [op |-> "alloc", block |-> mp_free_list])

\* mp_free outside the trust contract: block was returned by mp_alloc at
\* some time and may have been freed already.  The stores are those of
\* mp_free.
mp_free_traced(block) ==
    /\ Len(mp_trace) < MaxTrace
    /\ ~mp_fault
    /\ block \in Handed
    /\ mp_link' = mp_free_link(mp_link, block, mp_free_list)
    /\ mp_free_list' = block
    /\ mp_live' = mp_live \ {block}
    /\ mp_last' = MpCall("free", block, NULL,
                         FreeChain(mp_free_list, mp_link), mp_last.op)
    /\ mp_allocs' = [fresh |-> FALSE, rets |-> <<>>]
    /\ mp_trace' = Append(mp_trace, [op |-> "free", block |-> block])
    /\ UNCHANGED <<mp_total_size, mp_block_size, mp_fault>>

\* the owner of a handed-out block stores data over its first bytes
mp_caller_store(block, p) ==
    /\ ~mp_fault
    /\ block \in mp_live
    /\ mp_link' = [mp_link EXCEPT ![block] = p]
    /\ UNCHANGED <<mp_total_size, mp_block_size, mp_free_list, mp_fault,
                   mp_live, mp_last, mp_allocs>>

(***************************************************************************)
(* Stack allocator: stack_allocator_t and its operations.                  *)
(*                                                                         *)
(* A pointer into the backing region is modelled by its offset from        *)
(* sa->memory.                                                             *)
(***************************************************************************)
\* largest size handed to stack_init
MaxArena == 4
\* largest number of handles that are live at once
MaxHandles == 3

VARIABLES
    sa_size,   \* sa->size
    sa_top,    \* sa->top
    sa_live,   \* the live handles, oldest first: [off, bytes]
    sa_last    \* the last call, its argument, what it returned, top before,
               \* and the call made before it

sa_vars == <<sa_size, sa_top, sa_live, sa_last>>

SaCall(op, arg, ret, before) ==
    [op |-> op, arg |-> arg, ret |-> ret, before |-> before,
     prev |-> sa_last.op]

StackInit(size) ==
    /\ sa_size = size
    /\ sa_top = 0
    /\ sa_live = <<>>
    /\ sa_last = [op |-> "init", arg |-> size, ret |-> NULL, before |-> 0,
                  prev |-> "none"]

\* sa->top + bytes, a size_t addition
TopPlus(top, bytes) == Wrap(top + bytes)

stack_alloc(bytes) ==
    IF TopPlus(sa_top, bytes) > sa_size
    THEN /\ sa_last' = SaCall("alloc", bytes, NULL, sa_top)
         /\ UNCHANGED <<sa_size, sa_top, sa_live>>
    ELSE /\ Len(sa_live) < MaxHandles
         /\ sa_top' = TopPlus(sa_top, bytes)
         /\ sa_live' = Append(sa_live, [off |-> sa_top, bytes |-> bytes])
         /\ sa_last' = SaCall("alloc", bytes, sa_top, sa_top)
         /\ UNCHANGED sa_size

\* stack_free_to that leaves top behind the handle's last byte
stack_free_to_end(k) ==
    /\ k \in 1..Len(sa_live)
    /\ sa_top' = Wrap(sa_live[k].off + sa_live[k].bytes)
    /\ sa_live' = SubSeq(sa_live, 1, k - 1)
    /\ sa_last' = SaCall("free_to", sa_live[k].off, NULL, sa_top)
    /\ UNCHANGED sa_size

\* stack_free_to on the k-th live handle: top goes back to its offset, and
\* the handle and every younger one are dead
stack_free_to(k) ==
    /\ k \in 1..Len(sa_live)
    /\ sa_top' = sa_live[k].off
    /\ sa_live' = SubSeq(sa_live, 1, k - 1)
    /\ sa_last' = SaCall("free_to", sa_live[k].off, NULL, sa_top)
    /\ UNCHANGED sa_size

\* stack_reset that forgets the handles and leaves top where it is
stack_reset_keep_top ==
    /\ sa_live' = <<>>
    /\ sa_last' = SaCall("reset", 0, NULL, sa_top)
    /\ UNCHANGED <<sa_size, sa_top>>

stack_reset ==
    /\ sa_top' = 0
    /\ sa_live' = <<>>
    /\ sa_last' = SaCall("reset", 0, NULL, sa_top)
    /\ UNCHANGED sa_size

(***************************************************************************)
(* Specifications.  The structures are independent, so each is explored    *)
(* on its own, the others resting in one initial state.                    *)
(***************************************************************************)
vars == <<cb_vars, ht_vars, mp_vars, sa_vars>>

InitRing == \E size \in 0..MaxCap : CbInit(size)

InitMap ==
    \E table_size \in TableSizes, max_key_length \in KeyLengths,
       value_size \in ValueSizes :
        HtInit(table_size, max_key_length, value_size)

\* tables whose key field is longer than every key of Keys
InitMapFit ==
    \E table_size \in TableSizes, value_size \in ValueSizes :
        HtInit(table_size, 3, value_size)

InitPool ==
    \E block_size \in BlockSizes :
        \E total_size \in 0..((MaxBlocks + 1) * block_size - 1) :
            /\ total_size <= SizeMax
            /\ MpInit(total_size, block_size)

\* tables whose values fill the dummy array of ht_contains exactly, or are
\* one byte longer
WideValueSizes == {DummySize, DummySize + 1}

InitMapWide ==
    \E table_size \in TableSizes, value_size \in WideValueSizes :
        HtInit(table_size, 3, value_size)

\* pools of 1..MaxBlocks whole blocks of one pointer each
InitPoolWhole ==
    \E num_blocks \in 1..MaxBlocks :
        /\ num_blocks * PtrSize <= SizeMax
        /\ MpInit(num_blocks * PtrSize, PtrSize)

InitArena == \E size \in 0..MaxArena : StackInit(size)

RingAtRest == CbInit(0)

MapAtRest == HtInit(1, 2, 4)

PoolAtRest == MpInit(PtrSize, PtrSize)

ArenaAtRest == StackInit(0)

CbWriteCall ==
    /\ \E data \in Bytes : cb_write(data)
    /\ UNCHANGED <<cb_writer, cb_reader>>
    /\ UNCHANGED <<ht_vars, mp_vars, sa_vars>>

CbReadCall ==
    /\ cb_read
    /\ UNCHANGED <<cb_writer, cb_reader>>
    /\ UNCHANGED <<ht_vars, mp_vars, sa_vars>>

CbWriteCheck ==
    /\ \E data \in Bytes : cb_write_check(data)
    /\ UNCHANGED <<ht_vars, mp_vars, sa_vars>>

CbWriteStore ==
    /\ cb_write_store
    /\ UNCHANGED <<ht_vars, mp_vars, sa_vars>>

CbWriteHead ==
    /\ cb_write_head
    /\ UNCHANGED <<ht_vars, mp_vars, sa_vars>>

CbWriteLoad ==
    /\ cb_write_load
    /\ UNCHANGED <<ht_vars, mp_vars, sa_vars>>

CbWriteInc ==
    /\ cb_write_inc
    /\ UNCHANGED <<ht_vars, mp_vars, sa_vars>>

CbReadCheck ==
    /\ cb_read_check
    /\ UNCHANGED <<ht_vars, mp_vars, sa_vars>>

CbReadCopy ==
    /\ cb_read_copy
    /\ UNCHANGED <<ht_vars, mp_vars, sa_vars>>

CbReadTail ==
    /\ cb_read_tail
    /\ UNCHANGED <<ht_vars, mp_vars, sa_vars>>

CbReadLoad ==
    /\ cb_read_load
    /\ UNCHANGED <<ht_vars, mp_vars, sa_vars>>

CbReadDec ==
    /\ cb_read_dec
    /\ UNCHANGED <<ht_vars, mp_vars, sa_vars>>

HtPutCall ==
    /\ \E key \in Keys, value \in Values : ht_put_call(key, value)
    /\ UNCHANGED <<cb_vars, mp_vars, sa_vars>>

HtGetCall ==
    /\ \E key \in Keys : ht_get_call(key)
    /\ UNCHANGED <<cb_vars, mp_vars, sa_vars>>

HtRemoveCall ==
    /\ \E key \in Keys : ht_remove_call(key)
    /\ UNCHANGED <<cb_vars, mp_vars, sa_vars>>

HtContainsCall ==
    /\ \E key \in Keys : ht_contains_call(key)
    /\ UNCHANGED <<cb_vars, mp_vars, sa_vars>>

MpAllocCall ==
    /\ mp_alloc
    /\ UNCHANGED mp_trace
    /\ UNCHANGED <<cb_vars, ht_vars, sa_vars>>

MpFreeCall ==
    /\ \E block \in mp_live : mp_free(block)
    /\ UNCHANGED mp_trace
    /\ UNCHANGED <<cb_vars, ht_vars, sa_vars>>

MpCallerStore ==
    /\ \E block \in mp_live, p \in Blocks \cup {NULL} :
           mp_caller_store(block, p)
    /\ UNCHANGED mp_trace
    /\ UNCHANGED <<cb_vars, ht_vars, sa_vars>>

MpAllocTraced ==
    /\ mp_alloc_traced
    /\ UNCHANGED <<cb_vars, ht_vars, sa_vars>>

MpFreeTraced ==
    /\ \E block \in Handed : mp_free_traced(block)
    /\ UNCHANGED <<cb_vars, ht_vars, sa_vars>>

StackAllocCall ==
    /\ \E bytes \in 0..SizeMax : stack_alloc(bytes)
    /\ UNCHANGED <<cb_vars, ht_vars, mp_vars>>

StackFreeToCall ==
    /\ \E k \in 1..Len(sa_live) : stack_free_to(k)
    /\ UNCHANGED <<cb_vars, ht_vars, mp_vars>>

StackResetCall ==
    /\ stack_reset
    /\ UNCHANGED <<cb_vars, ht_vars, mp_vars>>

NextRing == CbWriteCall \/ CbReadCall

NextRingProcs ==
    \/ CbWriteCheck
    \/ CbWriteStore
    \/ CbWriteHead
    \/ CbWriteLoad
    \/ CbWriteInc
    \/ CbReadCheck
    \/ CbReadCopy
    \/ CbReadTail
    \/ CbReadLoad
    \/ CbReadDec

NextMap == HtPutCall \/ HtGetCall \/ HtRemoveCall \/ HtContainsCall

\* the calls that store into the table; ht_get and ht_contains leave it as
\* it is, so these alone reach every table NextMap reaches
NextMapStores == HtPutCall \/ HtRemoveCall

NextPool == MpAllocCall \/ MpFreeCall \/ MpCallerStore

NextPoolTraced == MpAllocTraced \/ MpFreeTraced

NextArena == StackAllocCall \/ StackFreeToCall \/ StackResetCall

RingInit == InitRing /\ MapAtRest /\ PoolAtRest /\ ArenaAtRest

MapInit == InitMap /\ RingAtRest /\ PoolAtRest /\ ArenaAtRest

MapFitInit == InitMapFit /\ RingAtRest /\ PoolAtRest /\ ArenaAtRest

MapWideInit == InitMapWide /\ RingAtRest /\ PoolAtRest /\ ArenaAtRest

PoolInit == InitPool /\ RingAtRest /\ MapAtRest /\ ArenaAtRest

PoolTracedInit == InitPoolWhole /\ RingAtRest /\ MapAtRest /\ ArenaAtRest

ArenaInit == InitArena /\ RingAtRest /\ MapAtRest /\ PoolAtRest

SpecRing == RingInit /\ [][NextRing]_vars

SpecRingProcs == RingInit /\ [][NextRingProcs]_vars

SpecMap == MapInit /\ [][NextMap]_vars

SpecMapStores == MapInit /\ [][NextMapStores]_vars

SpecMapFit == MapFitInit /\ [][NextMap]_vars

SpecMapWide == MapWideInit /\ [][NextMap]_vars

SpecPool == PoolInit /\ [][NextPool]_vars

SpecPoolTraced == PoolTracedInit /\ [][NextPoolTraced]_vars

SpecArena == ArenaInit /\ [][NextArena]_vars

Init == InitRing /\ InitMap /\ InitPool /\ InitArena

Next == NextRing \/ NextMap \/ NextPool \/ NextArena

Spec == Init /\ [][Next]_vars

(***************************************************************************)
(* C1.  Strict FIFO: in a queue of capacity >= 1 the Nth successful        *)
(* cb_read returned exactly the byte stored by the Nth successful          *)
(* cb_write, whatever calls (failed ones included) came in between.        *)
(***************************************************************************)
C1_StrictFifo ==
    cb_size >= 1 =>
        /\ Len(cb_readlog) <= Len(cb_written)
        /\ \A n \in 1..Len(cb_readlog) : cb_readlog[n] = cb_written[n]

\* two reads of different bytes, the second after both cursors wrapped
C1_Witness ==
    /\ cb_size >= 2
    /\ Len(cb_written) > cb_size
    /\ Len(cb_readlog) > cb_size
    /\ cb_last = [op |-> "read", ret |-> TRUE]
    /\ cb_readlog[Len(cb_readlog)] # cb_readlog[Len(cb_readlog) - 1]

C3_UniqueKeys ==
    \A b1, b2 \in DOMAIN ht_memory :
        (/\ b1 # b2
         /\ ht_memory[b1].occupied = 1
         /\ ht_memory[b2].occupied = 1)
        => ht_memory[b1].key # ht_memory[b2].key

C6_Partition ==
    ~mp_fault =>
        LET chain == FreeChain(mp_free_list, mp_link)
            nodes == {chain[n] : n \in 1..Len(chain)}
        IN  /\ ChainEnd(mp_link, mp_free_list, Cardinality(Blocks) + 1)
                   = NULL
            /\ Cardinality(nodes) = Len(chain)
            /\ nodes \cap mp_live = {}
            /\ nodes \cup mp_live = Blocks

\* a block was freed onto a chain that was not empty, while another block
\* is handed out and its owner has stored a pointer to the freed block over
\* its link field
C6_Witness ==
    /\ ~mp_fault
    /\ mp_last.op = "free"
    /\ Len(mp_last.before) >= 1
    /\ \E b \in mp_live : mp_link[b] = mp_last.block

(***************************************************************************)
(* C7.  Capacity: mp_init writes only inside the backing region, whatever  *)
(* capacity and block_size it is given; the first num_blocks =             *)
(* capacity / block_size mp_alloc calls after it return the blocks at      *)
(* offsets 0, block_size, 2 * block_size, ... in that order, every later   *)
(* one returns NULL, and an mp_alloc that returns NULL leaves the pool as  *)
(* it was.                                                                 *)
(***************************************************************************)
C7_Capacity ==
    /\ ~mp_fault
    /\ mp_allocs.fresh =>
           \A j \in 1..Len(mp_allocs.rets) :
               mp_allocs.rets[j] =
                   IF j <= NumBlocks(mp_total_size, mp_block_size)
                   THEN (j - 1) * mp_block_size
                   ELSE NULL
    /\ (mp_last.op = "alloc" /\ mp_last.ret = NULL) =>
           /\ mp_free_list = NULL
           /\ FreeChain(mp_free_list, mp_link) = mp_last.before

(***************************************************************************)
(* C8.  LIFO reuse: under the trust contract, the mp_alloc that follows    *)
(* mp_free(b) returns b and leaves the free chain as it was before the     *)
(* mp_free.                                                                *)
(***************************************************************************)
C8_LifoReuse ==
    [][(mp_last.op = "free" /\ mp_last'.op = "alloc")
       => (/\ mp_last'.ret = mp_last.block
           /\ FreeChain(mp_free_list', mp_link') = mp_last.before)]_vars

\* an mp_alloc right after an mp_free, in a pool with free blocks left and
\* another block handed out
C8_Witness ==
    /\ mp_last.op = "alloc"
    /\ mp_last.prev = "free"
    /\ mp_last.ret # NULL
    /\ Len(mp_last.before) >= 2
    /\ Cardinality(mp_live) >= 2

(***************************************************************************)
(* C9.  Bump rule and non-overlap: stack_alloc(n) succeeds exactly when    *)
(* top + n <= capacity; a success returns the old top and moves top by n,  *)
(* a failure returns NULL and leaves top; so 0 <= top <= capacity, and the *)
(* regions [off, off + n) of the live handles are pairwise disjoint and    *)
(* lie inside [0, capacity).                                               *)
(***************************************************************************)
C9_BumpNoOverlap ==
    /\ sa_last.op = "alloc" =>
           /\ (sa_last.ret # NULL) <=> (sa_last.before + sa_last.arg <= sa_size)
           /\ sa_last.ret # NULL =>
                  /\ sa_last.ret = sa_last.before
                  /\ sa_top = sa_last.before + sa_last.arg
           /\ sa_last.ret = NULL => sa_top = sa_last.before
    /\ 0 <= sa_top /\ sa_top <= sa_size
    /\ \A k \in 1..Len(sa_live) :
           sa_live[k].bytes > 0 =>
               /\ 0 <= sa_live[k].off
               /\ sa_live[k].off + sa_live[k].bytes <= sa_size
    /\ \A k1, k2 \in 1..Len(sa_live) :
           k1 < k2 =>
               \/ sa_live[k1].off + sa_live[k1].bytes <= sa_live[k2].off
               \/ sa_live[k2].off + sa_live[k2].bytes <= sa_live[k1].off

(***************************************************************************)
(* C10.  Size check under machine arithmetic: stack_alloc(n) returns NULL  *)
(* and leaves top for every n whose true sum top + n exceeds capacity,     *)
(* also when the size_t sum wraps.                                         *)
(***************************************************************************)
C10_NoWrapAccept ==
    (sa_last.op = "alloc" /\ sa_last.before + sa_last.arg > sa_size) =>
        /\ sa_last.ret = NULL
        /\ sa_top = sa_last.before

(***************************************************************************)
(* C11.  Reset law: whatever calls came before, a stack_alloc(n) with      *)
(* n <= sa->size made directly after stack_reset returns the base of the   *)
(* region (offset 0) and leaves top = n.                                   *)
(***************************************************************************)
C11_ResetLaw ==
    (/\ sa_last.op = "alloc"
     /\ sa_last.prev = "reset"
     /\ sa_last.arg <= sa_size)
        => (sa_last.ret = 0 /\ sa_top = sa_last.arg)

\* a non-empty allocation served at the base after a reset that came after
\* earlier allocations
C11_Witness ==
    /\ sa_last.op = "alloc"
    /\ sa_last.prev = "reset"
    /\ sa_last.arg >= 1
    /\ sa_last.arg <= sa_size
    /\ sa_last.ret = 0
    /\ sa_top = sa_last.arg

(***************************************************************************)
(* C12.  Full law, for a queue of capacity >= 1.  With n the number of     *)
(* bytes written and not yet read: n never exceeds the capacity, a         *)
(* cb_write fails only when n = capacity (so from empty, capacity writes   *)
(* in a row succeed and the next one fails, and a write after a            *)
(* successful read succeeds again), cb_is_full holds exactly when          *)
(* n = count = capacity and cb_is_empty exactly when n = count = 0.        *)
(***************************************************************************)
C12_FullLaw ==
    cb_size >= 1 =>
        LET n == Len(cb_written) - Len(cb_readlog)
        IN  /\ n >= 0
            /\ n <= cb_size
            /\ cb_count = n
            /\ cb_is_full <=> (n = cb_size)
            /\ cb_is_empty <=> (n = 0)
            /\ (cb_last.op = "write" /\ ~cb_last.ret) => n = cb_size
            /\ (cb_last.op = "write" /\ cb_last.ret) => n >= 1

\* the queue was filled, a write was refused, a byte was read, and the next
\* write succeeded and filled the queue again
C12_Witness ==
    /\ cb_size >= 2
    /\ cb_last = [op |-> "write", ret |-> TRUE]
    /\ cb_is_full
    /\ Len(cb_readlog) = 1
    /\ Len(cb_written) = cb_size + 1

(***************************************************************************)
(* C13.  Failures have no side effect: a cb_write on a full queue and a    *)
(* cb_read on an empty queue return false and leave the buffer contents,   *)
(* head, tail and count as they were; the failed cb_read also leaves the   *)
(* caller's output byte as it was.                                         *)
(***************************************************************************)
C13_FailNoEffect ==
    [][/\ (cb_last'.op = "write" /\ cb_is_full)
            => /\ ~cb_last'.ret
               /\ UNCHANGED <<cb_buffer, cb_size, cb_head, cb_tail,
                              cb_count, cb_data>>
       /\ (cb_last'.op = "read" /\ cb_is_empty)
            => /\ ~cb_last'.ret
               /\ UNCHANGED <<cb_buffer, cb_size, cb_head, cb_tail,
                              cb_count, cb_data>>]_vars

\* a cb_read refused on a queue that has been written, read and drained,
\* the caller's byte still holding what the last successful read stored
C13_Witness ==
    /\ cb_size >= 1
    /\ cb_last = [op |-> "read", ret |-> FALSE]
    /\ Len(cb_readlog) >= 1
    /\ Len(cb_readlog) = Len(cb_written)
    /\ cb_data = cb_readlog[Len(cb_readlog)]

(***************************************************************************)
(* C14.  State invariant: in a queue initialised with capacity >= 1,       *)
(* after any sequence of cb_write and cb_read calls,                       *)
(* 0 <= count <= capacity, head < capacity, tail < capacity and            *)
(* head = (tail + count) mod capacity.                                     *)
(***************************************************************************)
C14_StateInvariant ==
    cb_size >= 1 =>
        /\ 0 <= cb_count
        /\ cb_count <= cb_size
        /\ 0 <= cb_head
        /\ cb_head < cb_size
        /\ 0 <= cb_tail
        /\ cb_tail < cb_size
        /\ cb_head = (cb_tail + cb_count) % cb_size

\* head has wrapped round and lies behind tail, with bytes on both sides of
\* the end of the buffer
C14_Witness ==
    /\ cb_size >= 2
    /\ cb_head < cb_tail
    /\ cb_head >= 1
    /\ cb_count >= 2
    /\ cb_last.op \in {"write", "read"}

(***************************************************************************)
(* C15.  Removal is durable: once ht_remove(k) has returned true, ht_get   *)
(* and ht_contains return false for k in every later state, whatever       *)
(* ht_put / ht_remove calls on other keys come in between, until a later   *)
(* ht_put(k) succeeds.                                                     *)
(***************************************************************************)
C15_RemovalDurable ==
    \A key \in ht_removed :
        /\ ~ht_get(ht_memory, key).ret
        /\ ~ht_contains(ht_memory, key).ret

(***************************************************************************)
(* C16.  Put exhaustion: ht_put(k, v) examines at most table_size          *)
(* buckets, returns false only when every one of the table_size buckets    *)
(* is occupied and none of them stores k, and a failing ht_put leaves      *)
(* every bucket (key, value, occupancy flag) as it was.                    *)
(***************************************************************************)
C16_PutExhaustion ==
    [][ht_last'.op = "put"
        => /\ PutProbes(ht_memory, ht_last'.key, 0) <= ht_table_size
           /\ ~ht_last'.ret
                => /\ \A b \in DOMAIN ht_memory :
                          /\ ht_memory[b].occupied = 1
                          /\ ht_memory[b].key # ht_last'.key
                   /\ Cardinality(DOMAIN ht_memory) = ht_table_size
                   /\ ht_memory' = ht_memory]_vars

\* a refused ht_put on a table of two or more buckets, all of them occupied
\* by other keys
C16_Witness ==
    /\ ht_table_size >= 2
    /\ ht_last.op = "put"
    /\ ~ht_last.ret
    /\ \A b \in DOMAIN ht_memory :
           /\ ht_memory[b].occupied = 1
           /\ ht_memory[b].key # ht_last.key

(***************************************************************************)
(* C17.  Rewind: stack_free_to(h), for a live handle h at offset o, sets   *)
(* top = o and changes nothing else of the allocator, so the next          *)
(* successful stack_alloc returns offset o again (a successful            *)
(* stack_alloc returns the current top, a refused one leaves top alone);   *)
(* stack_reset leaves the allocator as stack_free_to on a handle at        *)
(* offset 0 does.                                                          *)
(***************************************************************************)
C17_Rewind ==
    [][/\ sa_last'.op = "free_to"
            => /\ \E k \in 1..Len(sa_live) : sa_live[k].off = sa_last'.arg
               /\ sa_top' = sa_last'.arg
               /\ sa_size' = sa_size
       /\ (sa_last.op = "free_to" /\ sa_last'.op = "alloc"
                /\ sa_last'.ret # NULL)
            => sa_last'.ret = sa_last.arg
       /\ (sa_last'.op = "alloc" /\ sa_last'.ret # NULL)
            => sa_last'.ret = sa_top
       /\ (sa_last'.op = "alloc" /\ sa_last'.ret = NULL)
            => sa_top' = sa_top
       /\ sa_last'.op = "reset"
            => /\ sa_top' = 0
               /\ sa_size' = sa_size
               /\ \A k \in 1..Len(sa_live) :
                      sa_live[k].off = 0 => sa_top' = sa_live[k].off]_vars

\* after two allocations the second handle was rewound, and the next
\* allocation was served at its offset again
C17_Witness ==
    /\ sa_last.op = "alloc"
    /\ sa_last.prev = "free_to"
    /\ sa_last.ret # NULL
    /\ sa_last.ret >= 1
    /\ sa_last.ret = sa_last.before
    /\ sa_last.arg >= 1
    /\ Len(sa_live) >= 2

(***************************************************************************)
(* C18.  Double free.  The block handed to the call at place n of the      *)
(* record, the places of the mp_alloc calls after a place, and a block     *)
(* being on a cycle of link fields.                                        *)
(***************************************************************************)
FreeAt(n, block) == mp_trace[n] = [op |-> "free", block |-> block]

AllocsAfter(n) ==
    {m \in (n + 1)..Len(mp_trace) : mp_trace[m].op = "alloc"}

\* the k-th smallest member of a set of places, 0 when there is none
RECURSIVE KthOf(_, _)
KthOf(places, k) ==
    IF places = {}
    THEN 0
    ELSE LET least == CHOOSE m \in places : \A o \in places : m <= o
         IN  IF k = 1 THEN least ELSE KthOf(places \ {least}, k - 1)

OnCycle(block) ==
    \E n \in 1..Cardinality(DOMAIN mp_link) :
        ChainEnd(mp_link, block, n) = block

(***************************************************************************)
(* C18 as stated: if mp_free(b) is called twice with no mp_alloc in        *)
(* between, then b lies on a cycle of the free chain and is its head, and  *)
(* the next two mp_alloc calls both return b.                              *)
(***************************************************************************)
C18_DoubleFree ==
    \A i \in 1..Len(mp_trace), j \in 1..Len(mp_trace) :
        \A block \in Handed :
            (/\ i < j
             /\ FreeAt(i, block)
             /\ FreeAt(j, block)
             /\ \A m \in (i + 1)..(j - 1) : mp_trace[m].op # "alloc")
                => /\ j = Len(mp_trace)
                        => (mp_free_list = block /\ OnCycle(block))
                   /\ \A k \in 1..2 :
                        LET m == KthOf(AllocsAfter(j), k)
                        IN  m # 0 => mp_trace[m].block = block

(***************************************************************************)
(* C18 as it holds: if mp_free(b) is called twice in a row, then b is the  *)
(* head of the free chain and its link field points to b itself (a cycle   *)
(* on b), and the mp_alloc calls that follow directly, up to two of them,  *)
(* return b.                                                               *)
(***************************************************************************)
C18_DoubleFreeDirect ==
    \A j \in 1..(Len(mp_trace) - 1) :
        \A block \in Handed :
            (FreeAt(j, block) /\ FreeAt(j + 1, block))
                => /\ j + 1 = Len(mp_trace)
                        => /\ mp_free_list = block
                           /\ mp_link[block] = block
                           /\ OnCycle(block)
                   /\ (j + 2 <= Len(mp_trace) /\ mp_trace[j + 2].op = "alloc")
                        => mp_trace[j + 2].block = block
                   /\ (/\ j + 3 <= Len(mp_trace)
                       /\ mp_trace[j + 2].op = "alloc"
                       /\ mp_trace[j + 3].op = "alloc")
                        => mp_trace[j + 3].block = block

\* two blocks were handed out, one of them was freed twice in a row, and the
\* two mp_alloc calls that followed both returned it
C18_Witness ==
    /\ Len(mp_trace) >= 5
    /\ Cardinality(Handed) >= 2
    /\ \E j \in 1..(Len(mp_trace) - 3) :
           \E block \in Handed :
               /\ FreeAt(j, block)
               /\ FreeAt(j + 1, block)
               /\ mp_trace[j + 2] = [op |-> "alloc", block |-> block]
               /\ mp_trace[j + 3] = [op |-> "alloc", block |-> block]
               /\ j + 3 = Len(mp_trace)

(***************************************************************************)
(* C19.  One process calling only cb_write and another calling only        *)
(* cb_read on the same queue without a lock, interleaved load by load and  *)
(* store by store: whenever neither is inside a call count equals the      *)
(* number of successful writes less the number of successful reads,        *)
(* 0 <= count <= capacity always holds, and the bytes read are the bytes   *)
(* written, in the order they were written.                                *)
(***************************************************************************)
C19_LockFreeSpsc ==
    cb_size >= 1 =>
        /\ (cb_writer.pc = "idle" /\ cb_reader.pc = "idle")
                => cb_count = Len(cb_written) - Len(cb_readlog)
        /\ 0 <= cb_count
        /\ cb_count <= cb_size
        /\ Len(cb_readlog) <= Len(cb_written)
        /\ \A n \in 1..Len(cb_readlog) :
               n <= Len(cb_written) => cb_readlog[n] = cb_written[n]

(***************************************************************************)
(* C20.  ht_contains is ht_get without the value: for every value_size     *)
(* given to ht_init, values longer than the dummy array included, and      *)
(* every key, ht_contains(k) returns what ht_get(k) would return, changes  *)
(* no bucket, and stores no more bytes than its dummy array holds.         *)
(***************************************************************************)
C20_ContainsIsGet ==
    [][ht_last'.op = "contains"
        => /\ ht_last'.ret = ht_get(ht_memory, ht_last'.key).ret
           /\ ht_memory' = ht_memory
           /\ ht_scratch' <= DummySize]_vars

=============================================================================
